---- MODULE Spec2Model ----
(***************************************************************************)
(* A model of epubgrep.py (class EpubGrep): the directory walker           *)
(* (searchin / _searchdir / read_pkzip), the unit scorer                   *)
(* (_searchcontents) and the preview renderer (print_previews with its     *)
(* helpers _match_to_parts, _wrap and _print_block).                       *)
(*                                                                         *)
(* Bytes are modelled as one-character strings; a blob is a sequence of    *)
(* them.  Python offsets are 0-based and slices are half-open; sequences   *)
(* here are 1-based, and Slice converts.                                   *)
(***************************************************************************)
EXTENDS Integers, Sequences, FiniteSets, TLC

VARIABLES
    cfg,              \* the EpubGrep configuration attributes set in __init__ / setters
    pc,               \* position of the running operation
    fs,               \* the file system the walker sees
    already_visited,  \* self.already_visited
    status,           \* self.status
    stack,            \* the call stack of _searchdir (one frame per active call)
    calls,            \* number of searchin calls made so far
    reads,            \* per file: what os.stat and open found, once per call that got there
    scored,           \* per file: how often _searchcontents ran on it
    out,              \* what was printed on stdout, in order
    err,              \* what was printed on stderr, in order
    input,            \* the arguments of the call under study (searchin: the root)
    ret,              \* what the call under study returned
    offs,             \* _wrap: the loop variable offs
    lines             \* _wrap: the list lines

vars == <<cfg, pc, fs, already_visited, status, stack, calls, reads, scored,
          out, err, input, ret, offs, lines>>

----------------------------------------------------------------------------
(* Bounds of the model *)

MaxTextLen == 4     \* longest block text given to _wrap
MaxWrapCols == 3    \* largest output_width - 4 tried for _wrap
MaxBlobLen == 3     \* length of the blob given to print_previews
MaxSpans == 2       \* most matches in one blob
MaxCtx == 2         \* largest preview_lead / preview_lag
MaxBlobs == 2       \* most blobs in one unit
MaxCfg == 3         \* largest min_matches / max_previews
NNodes == 3         \* files and directories in the file system
MaxCalls == 2       \* searchin calls on one EpubGrep instance
MaxSize == 5        \* max_size given to the walker, in bytes

(* Program constants *)

DefaultWidth == 80  \* self.output_width
Indent == 4         \* the '    ' prefix of every wrapped line

----------------------------------------------------------------------------
(* Generic helpers *)

\* F applied to v: v is computed once and then used under a name, as a
\* local variable of the code is.
With(v, F(_)) == F(v)

Max(a, b) == IF a > b THEN a ELSE b
Min(a, b) == IF a < b THEN a ELSE b

\* Python s[a:b] for 0 <= a, 0 <= b (the slice clips to the length).
Slice(s, a, b) == SubSeq(s, a + 1, Min(b, Len(s)))

\* All sequences over S of length at most n.
SeqsUpTo(S, n) == UNION {[1..k -> S] : k \in 0..n}

RECURSIVE Concat(_)
Concat(ss) == IF ss = <<>> THEN <<>> ELSE Head(ss) \o Concat(Tail(ss))

NL == "\n"

\* k copies of c
RECURSIVE Run(_, _)
Run(c, k) == IF k = 0 THEN <<>> ELSE <<c>> \o Run(c, k - 1)

----------------------------------------------------------------------------
(* print_previews._wrap *)

\* str.find('\n', lo, hi): the first 0-based index in [lo, hi) holding a
\* line break, or -1.
FindNL(block, lo, hi) ==
    LET hits == {k \in lo..(Min(hi, Len(block)) - 1) : block[k + 1] = NL}
    IN  IF hits = {} THEN -1 ELSE CHOOSE k \in hits : \A j \in hits : k <= j

IndentStr == [k \in 1..Indent |-> " "]

\* One iteration of the while loop of _wrap: the line appended and the
\* next value of offs.
\* (WrapIterFullWidth: the window taken as output_width, the indent forgotten.)
WrapIterFullWidth(block, width, o) ==
    LET found == FindNL(block, o, o + width)
        idx   == IF found = -1 THEN o + width ELSE found
    IN  [line |-> IndentStr \o Slice(block, o, idx),
         offs |-> IF Slice(block, idx, idx + 1) = <<NL>> THEN idx + 1 ELSE idx]

WrapIter(block, width, o) ==
    LET found == FindNL(block, o, o + width - Indent)
        idx   == IF found = -1 THEN o + width - Indent ELSE found
    IN  [line |-> IndentStr \o Slice(block, o, idx),
         offs |-> IF Slice(block, idx, idx + 1) = <<NL>> THEN idx + 1 ELSE idx]

RECURSIVE WrapLoop(_, _, _, _)
WrapLoop(block, width, o, ls) ==
    IF o <= Len(block)
    THEN With(WrapIter(block, width, o),
              LAMBDA it : WrapLoop(block, width, it.offs, Append(ls, it.line)))
    ELSE ls

\* _wrap(block): the list of lines (the code joins them with '\n').
Wrap(block, width) == WrapLoop(block, width, 0, <<>>)

----------------------------------------------------------------------------
(* print_previews._print_block *)

ESC_CTX   == "ESC[1;36m"   \* b'\033[1;36m', one token
ESC_MATCH == "ESC[1;31m"   \* b'\033[1;31m', one token
HiByte    == "\\xff"       \* a byte that is not valid UTF-8

IsSpace(c) == c \in {" ", NL, "\t", "\r"}

\* The first index >= from holding c, or 0.
FirstAt(s, c, from) ==
    LET hits == {k \in from..Len(s) : s[k] = c}
    IN  IF hits = {} THEN 0 ELSE CHOOSE k \in hits : \A j \in hits : k <= j

\* The first index holding '<' or '>', or 0.
FirstAngle(s) ==
    LET hits == {k \in 1..Len(s) : s[k] \in {"<", ">"}}
    IN  IF hits = {} THEN 0 ELSE CHOOSE k \in hits : \A j \in hits : k <= j

\* EpubGrep.tag_pattern.sub(b'', s) from position p on (p > 1, or p = 1 with
\* the first alternative already tried): <[^>]+> removes through the next
\* '>' when at least one byte lies between; <[^>]*$ removes the rest when
\* no '>' follows; a '<' directly followed by '>' stays.
RECURSIVE TagScan(_, _)
TagScan(s, p) ==
    IF p > Len(s) THEN <<>>
    ELSE IF s[p] = "<"
         THEN LET q == FirstAt(s, ">", p + 1)
              IN  IF q = 0 THEN <<>>
                  ELSE IF q = p + 1 THEN <<s[p]>> \o TagScan(s, p + 1)
                  ELSE TagScan(s, q + 1)
         ELSE <<s[p]>> \o TagScan(s, p + 1)

\* tag_pattern = ^[^<>]*>|<[^>]+>|<[^>]*$ substituted by b''.
TagSub(s) ==
    LET j == FirstAngle(s)
    IN  IF j > 0 /\ s[j] = ">" THEN TagScan(s, j + 1) ELSE TagScan(s, 1)

RECURSIVE LStrip(_)
LStrip(s) == IF s # <<>> /\ IsSpace(Head(s)) THEN LStrip(Tail(s)) ELSE s

RECURSIVE RStrip(_)
RStrip(s) ==
    IF s # <<>> /\ IsSpace(s[Len(s)]) THEN RStrip(SubSeq(s, 1, Len(s) - 1)) ELSE s

\* bytes.strip()
Strip(s) == RStrip(LStrip(s))

\* bytes.decode('utf-8', 'backslashreplace'): an undecodable byte becomes
\* the four characters \xNN, every other byte its character.
RECURSIVE Decode(_)
Decode(s) ==
    IF s = <<>> THEN <<>>
    ELSE (IF Head(s) = HiByte THEN <<"\\", "x", "f", "f">> ELSE <<Head(s)>>)
         \o Decode(Tail(s))

\* _print_block(block): what it prints (nothing, or one wrapped block), and
\* whether it raises.  color_prefix starts as the str '' and becomes bytes
\* only when the block starts with an escape sequence; line 113 adds it to
\* the bytes block, which raises TypeError when it is still a str.
PrintBlock(block, c) ==
    LET prefix_is_bytes == block # <<>> /\ block[1] \in {ESC_CTX, ESC_MATCH}
        color_prefix    == IF prefix_is_bytes THEN <<block[1]>> ELSE <<>>
        stripped        == Strip(TagSub(block))
    IN  IF Len(stripped) = 0 THEN [out |-> <<>>, raised |-> FALSE]
        ELSE IF ~prefix_is_bytes THEN [out |-> <<>>, raised |-> TRUE]
        ELSE [out    |-> <<[t     |-> "block",
                            lines |-> Wrap(Decode(color_prefix \o stripped),
                                           c.output_width),
                            reset |-> c.colorize]>>,
              raised |-> FALSE]

----------------------------------------------------------------------------
(* print_previews *)

\* A match object m: m.start(0), m.end(0) and m.string (the blob's identity).
Match(s, e, id) == [start |-> s, end |-> e, string |-> id]

\* Parts format: (start, end, string, isContext)
Part(a, b, id, ctx) == [start |-> a, end |-> b, string |-> id, isContext |-> ctx]

MatchToParts(m, c) ==
    << Part(Max(m.start - c.preview_lead, 0), m.start, m.string, TRUE),
       Part(m.start, m.end, m.string, FALSE),
       Part(m.end, m.end + c.preview_lag, m.string, TRUE) >>

\* list.sort(key=lambda m: m.start(0)): a stable sort by start offset.
\* (SortMissing: the list left in the order given.)
SortMissing(ms) == ms

InsertByStart(sorted, m) ==
    LET k == Cardinality({j \in 1..Len(sorted) : sorted[j].start <= m.start})
    IN  SubSeq(sorted, 1, k) \o <<m>> \o SubSeq(sorted, k + 1, Len(sorted))

RECURSIVE SortByStart(_)
SortByStart(ms) ==
    IF ms = <<>> THEN <<>>
    ELSE InsertByStart(SortByStart(SubSeq(ms, 1, Len(ms) - 1)), ms[Len(ms)])

\* The test of line 124: the previous trailing context ends after the new
\* match starts, and both lie in the same blob.
\* (OverlapsOrTouches: the comparison written >= instead of >.)
OverlapsOrTouches(last, m) == last.end >= m.start /\ last.string = m.string

Overlaps(last, m) == last.end > m.start /\ last.string = m.string

\* One iteration of the merge loop (lines 123-131).  st.i is the code's
\* index i plus one (sequences are 1-based).
\* (MergeStepNoShrink: line 125 left out, the trailing context kept whole.)
MergeStepNoShrink(st, m, c) ==
    IF Overlaps(st.parts[st.i], m)
    THEN [parts |-> st.parts
                    \o << Part(m.start, m.end, m.string, FALSE),
                          Part(m.end, m.end + c.preview_lag, m.string, TRUE) >>,
          i     |-> st.i + 2]
    ELSE [parts |-> st.parts \o MatchToParts(m, c),
          i     |-> st.i + 3]

MergeStep(st, m, c) ==
    IF Overlaps(st.parts[st.i], m)
    THEN [parts |-> [st.parts EXCEPT ![st.i].end = m.start]
                    \o << Part(m.start, m.end, m.string, FALSE),
                          Part(m.end, m.end + c.preview_lag, m.string, TRUE) >>,
          i     |-> st.i + 2]
    ELSE [parts |-> st.parts \o MatchToParts(m, c),
          i     |-> st.i + 3]

RECURSIVE MergeLoop(_, _, _)
MergeLoop(st, ms, c) ==
    IF ms = <<>> THEN st ELSE MergeLoop(MergeStep(st, Head(ms), c), Tail(ms), c)

\* Lines 120-131 on an already sorted, non-empty list: the parts and i.
MergeSorted(ms, c) ==
    MergeLoop([parts |-> MatchToParts(ms[1], c), i |-> 3], Tail(ms), c)

\* The bytes one part contributes to a block (lines 138-141, 150-153).
PartBytes(p, strs, c) ==
    (IF c.colorize THEN <<IF p.isContext THEN ESC_CTX ELSE ESC_MATCH>> ELSE <<>>)
    \o Slice(strs[p.string], p.start, p.end)

Divider == [t |-> "div"]

\* One iteration of the render loop (lines 135-153).  st.cur (the parts of
\* the block being built) and st.blocks (each argument of _print_block, with
\* its parts) only record what the loop does; st.raised is an exception
\* leaving the loop.
RenderStep(st, p, strs, c) ==
    IF st.raised THEN st
    ELSE IF ~p.isContext
    THEN [st EXCEPT !.last_was_context = FALSE,
                    !.block = @ \o PartBytes(p, strs, c),
                    !.cur = Append(@, p)]
    ELSE IF st.last_was_context
         THEN With(PrintBlock(st.block, c), LAMBDA pb :
                  [block            |-> IF pb.raised THEN st.block
                                        ELSE PartBytes(p, strs, c),
                   last_was_context |-> TRUE,
                   psa              |-> IF pb.raised THEN st.psa ELSE TRUE,
                   out              |-> st.out
                                        \o (IF st.psa THEN <<Divider>> ELSE <<>>)
                                        \o pb.out,
                   cur              |-> IF pb.raised THEN st.cur ELSE <<p>>,
                   blocks           |-> Append(st.blocks,
                                           [bytes |-> st.block, parts |-> st.cur]),
                   raised           |-> pb.raised])
         ELSE [st EXCEPT !.last_was_context = TRUE,
                         !.block = @ \o PartBytes(p, strs, c),
                         !.cur = Append(@, p)]

RECURSIVE RenderLoop(_, _, _, _)
RenderLoop(st, ps, strs, c) ==
    IF ps = <<>> THEN st
    ELSE RenderLoop(RenderStep(st, Head(ps), strs, c), Tail(ps), strs, c)

\* Lines 133-158: what is printed for the parts, the blocks built, and
\* whether _print_block raised.
Render(parts, strs, printed_something_already, c) ==
    With(RenderLoop([block |-> <<>>, last_was_context |-> FALSE,
                     psa |-> printed_something_already, out |-> <<>>,
                     cur |-> <<>>, blocks |-> <<>>, raised |-> FALSE],
                    parts, strs, c),
         LAMBDA st :
            IF st.raised
            THEN [out |-> st.out, blocks |-> st.blocks, raised |-> TRUE]
            ELSE With(PrintBlock(st.block, c), LAMBDA pb :
                    [out    |-> st.out
                                \o (IF st.psa THEN <<Divider>> ELSE <<>>)
                                \o pb.out,
                     blocks |-> Append(st.blocks,
                                       [bytes |-> st.block, parts |-> st.cur]),
                     raised |-> pb.raised]))

\* print_previews(matches, printed_something_already): the value returned
\* (meaningless when it raises), what is printed, and the blocks built.  strs maps
\* a blob's identity to its bytes.
PrintPreviews(matches, strs, printed_something_already, c) ==
    IF Len(matches) < 1
    THEN [ret |-> FALSE, out |-> <<>>, blocks |-> <<>>, raised |-> FALSE]
    ELSE With(Render(MergeSorted(SortByStart(matches), c).parts, strs,
                     printed_something_already, c),
              LAMBDA r : [ret    |-> ~r.raised,
                          out    |-> r.out,
                          blocks |-> r.blocks,
                          raised |-> r.raised])

----------------------------------------------------------------------------
(* _searchcontents *)

\* A blob of a unit: its bytes and the spans pattern.finditer finds in it.
\* contents is a sequence of such blobs; a match's string is the blob's index.
MatchesOf(contents, k) ==
    [j \in 1..Len(contents[k].spans) |->
        Match(contents[k].spans[j][1], contents[k].spans[j][2], k)]

RECURSIVE SumLens(_)
SumLens(ms) == IF ms = <<>> THEN 0 ELSE Len(Head(ms)) + SumLens(Tail(ms))

\* One iteration of the preview loop (lines 175-181).  st.stop records the
\* break or an exception leaving the loop; st.passed is the list handed to
\* print_previews for each blob.
PreviewStep(st, m, strs, c) ==
    LET cut == SubSeq(m, 1, Min(st.previews, Len(m)))
    IN  With(PrintPreviews(cut, strs, st.psa, c), LAMBDA r :
            [previews |-> st.previews - Len(cut),
             psa      |-> st.psa \/ (~r.raised /\ r.ret),
             out      |-> st.out \o r.out,
             passed   |-> Append(st.passed, cut),
             raised   |-> r.raised,
             stop     |-> r.raised \/ st.previews - Len(cut) = 0])

RECURSIVE PreviewLoop(_, _, _, _)
PreviewLoop(st, ms, strs, c) ==
    IF ms = <<>> \/ st.stop THEN st
    ELSE PreviewLoop(PreviewStep(st, Head(ms), strs, c), Tail(ms), strs, c)

\* Line 167: the unit is reported.
\* (ReportableStrict: the comparison written > instead of >=.)
ReportableStrict(n, c) == n > c.min_matches

Reportable(n, c) == n >= c.min_matches

\* _searchcontents(path, contents): n, what is printed, the span lists
\* passed to print_previews, and whether an exception leaves the call.
SearchContents(path, contents, c) ==
    LET matches == [k \in 1..Len(contents) |-> MatchesOf(contents, k)]
        strs    == [k \in 1..Len(contents) |-> contents[k].bytes]
        n       == SumLens(matches)
        report  == [t |-> "report", path |-> path, n |-> n]
    IN  IF Reportable(n, c)
        THEN IF ~c.preview
             THEN [n |-> n, out |-> <<report>>, passed |-> <<>>, raised |-> FALSE]
             ELSE With(PreviewLoop([previews |-> c.max_previews, psa |-> FALSE,
                                    out |-> <<>>, passed |-> <<>>,
                                    raised |-> FALSE, stop |-> FALSE],
                                   matches, strs, c),
                       LAMBDA pv : [n |-> n, out |-> <<report>> \o pv.out,
                                    passed |-> pv.passed, raised |-> pv.raised])
        ELSE [n |-> n, out |-> <<>>, passed |-> <<>>, raised |-> FALSE]

----------------------------------------------------------------------------
(* Configuration: EpubGrep.__init__ *)

DefaultCfg ==
    [min_matches   |-> 1,
     max_previews  |-> 20,
     max_size      |-> 10 * 1024 * 1024,
     preview       |-> FALSE,
     preview_lead  |-> 80,
     preview_lag   |-> 80,
     randomize     |-> FALSE,
     colorize      |-> FALSE,
     output_width  |-> DefaultWidth]

\* The values of the variables an operation does not use.
NoFs == [kind |-> <<>>, parent |-> <<>>, link |-> <<>>]
WalkIdle ==
    /\ fs = NoFs
    /\ already_visited = {}
    /\ status = "not started"
    /\ stack = <<>>
    /\ calls = 0
    /\ reads = <<>>
    /\ scored = <<>>
    /\ err = <<>>
WrapIdle == offs = 0 /\ lines = <<>>

walkVars == <<fs, already_visited, status, stack, calls, reads, scored, err>>
wrapVars == <<offs, lines>>

----------------------------------------------------------------------------
(* The file system *)

\* Files and directories are numbered 1..NNodes; node 1 is the top
\* directory and node n > 1 lies in directory fs.parent[n].  fs.link is one
\* symbolic link in the top directory (dir = 0: there is none); fs.bad is
\* the entry the operating system refuses to stat, list or open (0: none).
\* A path is the sequence of names from the top; an entry's name is its
\* node's number, the link's name is 0.
Nodes == 1..NNodes

RECURSIVE CanonPath(_, _)
CanonPath(f, n) == IF n = 0 THEN <<>> ELSE Append(CanonPath(f, f.parent[n]), n)

\* The node a path leads to, links followed.
RECURSIVE Resolve(_, _)
Resolve(f, path) ==
    IF path = <<>> THEN 0
    ELSE IF path[Len(path)] = 0 THEN f.link.target ELSE path[Len(path)]

\* os.path.realpath(path): the canonical path of what the path leads to.
\* (RealPathUnresolved: the path itself, links not followed.)
RealPathUnresolved(f, path) == path

RealPath(f, path) == CanonPath(f, Resolve(f, path))

\* os.listdir(realpath): the entries in the directory's own order.
ListDir(f, d) ==
    LET kids == {n \in Nodes : f.parent[n] = d}
        RECURSIVE Asc(_)
        Asc(S) == IF S = {} THEN <<>>
                  ELSE LET m == CHOOSE x \in S : \A y \in S : x <= y
                       IN  <<m>> \o Asc(S \ {m})
    IN  Asc(kids) \o (IF f.link.dir = d THEN <<0>> ELSE <<>>)

FileSystems ==
    {f \in [kind   : [Nodes -> {"dir", "file"}],
            parent : [Nodes -> 0..NNodes],
            link   : [dir : 0..1, target : 0..NNodes],
            bad    : 0..NNodes] :
        /\ f.kind[1] = "dir"
        /\ \A n \in Nodes : f.parent[n] < n /\ (f.parent[n] = 0) = (n = 1)
        /\ \A n \in Nodes : f.parent[n] # 0 => f.kind[f.parent[n]] = "dir"
        /\ (f.link.dir = 0) = (f.link.target = 0)
        /\ f.link.dir # 0 => f.kind[f.link.dir] = "dir"}

\* os.stat, os.listdir, open or read raises on the path.
Raises(f, path) == Resolve(f, path) = f.bad

\* The paths a caller can hand to searchin: any entry by its own path, or
\* the link.
RootPaths(f) ==
    {CanonPath(f, n) : n \in Nodes}
        \cup (IF f.link.dir = 0 THEN {} ELSE {Append(CanonPath(f, f.link.dir), 0)})

\* What a regular file holds: its bytes, the spans the pattern matches in
\* them, and what zipfile makes of them (ok = FALSE: it raises).
PK == "PK\\x03\\x04"   \* the four signature bytes, one token

RECURSIVE ByteLen(_)
ByteLen(bytes) ==
    IF bytes = <<>> THEN 0
    ELSE (IF Head(bytes) = PK THEN 4 ELSE 1) + ByteLen(Tail(bytes))

NoZip == [ok |-> FALSE, members |-> <<>>]
FileCases ==
    { [bytes |-> <<"a">>, spans |-> << <<0, 1>> >>, zip |-> NoZip],
      [bytes |-> Run("a", MaxSize + 1), spans |-> << <<0, 1>> >>, zip |-> NoZip],
      [bytes |-> <<PK, "a">>, spans |-> << <<1, 2>> >>, zip |-> NoZip],
      [bytes |-> <<PK, "z">>, spans |-> <<>>,
       zip |-> [ok |-> TRUE,
                members |-> << [file_size |-> MaxSize + 1,
                                bytes |-> Run("a", MaxSize + 1),
                                spans |-> << <<0, 1>> >>],
                               [file_size |-> 1, bytes |-> <<"a">>,
                                spans |-> << <<0, 1>> >>] >>]] }

----------------------------------------------------------------------------
(* read_pkzip and _searchdir *)

Blob(bytes, spans) == [bytes |-> bytes, spans |-> spans]

RECURSIVE Members(_, _)
Members(ms, c) ==
    IF ms = <<>> THEN <<>>
    ELSE (IF Head(ms).file_size > c.max_size THEN <<>>
          ELSE <<Blob(Head(ms).bytes, Head(ms).spans)>>)
         \o Members(Tail(ms), c)

\* read_pkzip(path, c): the list of member contents, or False with a note
\* on stderr when zipfile raises.
ReadPkzip(path, file, c) ==
    IF file.zip.ok
    THEN [content |-> Members(file.zip.members, c), ok |-> TRUE, err |-> <<>>]
    ELSE [content |-> <<>>, ok |-> FALSE,
          err |-> <<[t |-> "Failed to open", path |-> path]>>]

\* Lines 205-210: the blobs handed to _searchcontents (none: it is not called).
\* (UnitOfWithFallback: the raw bytes searched when read_pkzip gives nothing.)
UnitOfWithFallback(file, zipped) ==
    IF Head(file.bytes) = PK /\ Len(zipped.content) > 0
    THEN [call |-> TRUE, contents |-> zipped.content]
    ELSE [call |-> TRUE, contents |-> <<Blob(file.bytes, file.spans)>>]

UnitOf(file, zipped) ==
    IF file.bytes # <<>> /\ Head(file.bytes) = PK
    THEN IF Len(zipped.content) > 0
         THEN [call |-> TRUE, contents |-> zipped.content]
         ELSE [call |-> FALSE, contents |-> <<>>]
    ELSE [call |-> TRUE, contents |-> <<Blob(file.bytes, file.spans)>>]

\* Lines 212-216: an exception is caught in the call it was raised in; the
\* callers' loops go on.
\* (AbortWalk: the exception caught only around the whole walk.)
AbortWalk(stk) == <<>>

AfterException(stk) == stk

ReadNote(path) == [t |-> "Failed to read", path |-> path]

\* One call of _searchdir(path) up to its loop over the directory's entries.
\* raises: stat, listdir, open or read raises; file: what the file holds;
\* order: the order of the entries after the optional shuffle.
\* The result: the new values of already_visited, status, stack, reads (the
\* file os.stat and open found, once per call that got that far), scored
\* (the calls of _searchcontents), and the additions to stdout and stderr.
SearchDir(path, raises, file, order, st, c) ==
    LET node     == Resolve(st.fs, path)
        realpath == RealPath(st.fs, path)
        entered  == [st EXCEPT !.already_visited = @ \cup {realpath},
                               !.status = path]
        failed   == [entered EXCEPT !.stack = AfterException(@),
                                    !.err = Append(@, ReadNote(path))]
    IN  IF realpath \in st.already_visited THEN st
        ELSE IF raises THEN failed
        ELSE IF st.fs.kind[node] = "dir"
        THEN [entered EXCEPT !.stack = Append(@, [path |-> path, todo |-> order])]
        ELSE IF ByteLen(file.bytes) > c.max_size
        THEN [entered EXCEPT !.reads[node] = Append(@, file)]
        ELSE LET zipped == IF file.bytes # <<>> /\ Head(file.bytes) = PK
                           THEN ReadPkzip(path, file, c)
                           ELSE [content |-> <<>>, ok |-> TRUE, err |-> <<>>]
                 unit   == UnitOf(file, zipped)
                 read   == [entered EXCEPT !.reads[node] = Append(@, file),
                                           !.err = @ \o zipped.err]
             IN  IF ~unit.call THEN read
                 ELSE With(SearchContents(path, unit.contents, c), LAMBDA sc :
                        IF sc.raised
                        THEN [read EXCEPT !.scored[node] = @ + 1,
                                          !.out = @ \o sc.out,
                                          !.stack = AfterException(@),
                                          !.err = Append(@, ReadNote(path))]
                        ELSE [read EXCEPT !.scored[node] = @ + 1,
                                          !.out = @ \o sc.out])

WalkState ==
    [fs |-> fs, already_visited |-> already_visited, status |-> status,
     stack |-> stack, reads |-> reads, scored |-> scored, out |-> out, err |-> err]

SetWalkState(st) ==
    /\ already_visited' = st.already_visited
    /\ status' = st.status
    /\ stack' = st.stack
    /\ reads' = st.reads
    /\ scored' = st.scored
    /\ out' = st.out
    /\ err' = st.err

\* The orders the entries of a directory are walked in: the listing order,
\* or any order after random.shuffle.
Orders(f, path, c) ==
    LET ls == IF Resolve(f, path) # 0 /\ f.kind[Resolve(f, path)] = "dir"
              THEN ListDir(f, Resolve(f, path)) ELSE <<>>
    IN  IF c.randomize
        THEN {[k \in 1..Len(ls) |-> ls[p[k]]] : p \in Permutations(1..Len(ls))}
        ELSE {ls}

InitWalk ==
    /\ cfg = [DefaultCfg EXCEPT !.max_size = MaxSize]
    /\ fs \in FileSystems
    /\ already_visited = {}
    /\ status = "not started"
    /\ stack = <<>>
    /\ calls = 0
    /\ reads = [n \in Nodes |-> <<>>]
    /\ scored = [n \in Nodes |-> 0]
    /\ out = <<>>
    /\ err = <<>>
    /\ pc = "idle"
    /\ input = <<>>
    /\ ret = "none"
    /\ WrapIdle

\* searchin(path): the call of _searchdir on the path given.
SearchIn ==
    /\ pc = "idle"
    /\ calls < MaxCalls
    /\ \E root \in RootPaths(fs), file \in FileCases :
        \E order \in Orders(fs, root, cfg) :
          /\ SetWalkState(SearchDir(root, Raises(fs, root), file, order,
                                    WalkState, cfg))
          /\ input' = root
    /\ calls' = calls + 1
    /\ pc' = "walking"
    /\ UNCHANGED <<cfg, fs, ret, offs, lines>>

\* for sp in ls: self._searchdir(os.path.join(path, sp)) -- the next entry
\* of the innermost directory being walked.
Descend ==
    /\ pc = "walking"
    /\ stack # <<>>
    /\ stack[Len(stack)].todo # <<>>
    /\ LET top  == stack[Len(stack)]
           path == Append(top.path, Head(top.todo))
           st   == [WalkState EXCEPT !.stack[Len(stack)].todo = Tail(@)]
       IN  \E file \in FileCases, order \in Orders(fs, path, cfg) :
              SetWalkState(SearchDir(path, Raises(fs, path), file, order,
                                     st, cfg))
    /\ UNCHANGED <<cfg, pc, fs, calls, input, ret, offs, lines>>

\* The loop over a directory's entries is over: _searchdir returns.
Ascend ==
    /\ pc = "walking"
    /\ stack # <<>>
    /\ stack[Len(stack)].todo = <<>>
    /\ stack' = SubSeq(stack, 1, Len(stack) - 1)
    /\ UNCHANGED <<cfg, pc, fs, already_visited, status, calls, reads, scored,
                   out, err, input, ret, offs, lines>>

\* The outermost _searchdir has returned: self.status = 'finished'.
Finish ==
    /\ pc = "walking"
    /\ stack = <<>>
    /\ status' = "finished"
    /\ pc' = "idle"
    /\ UNCHANGED <<cfg, fs, already_visited, stack, calls, reads, scored,
                   out, err, input, ret, offs, lines>>

Next == SearchIn \/ Descend \/ Ascend \/ Finish

Spec == InitWalk /\ [][Next]_vars

----------------------------------------------------------------------------
(* Claims about the walk *)

IsFile(n) == fs.kind[n] = "file"
Visited(n) == CanonPath(fs, n) \in already_visited
WasRead(n) == reads[n] # <<>>
Found(n) == reads[n][1]
WithinSize(file) == ByteLen(file.bytes) <= cfg.max_size
Reported(n) ==
    \E i \in DOMAIN out : out[i].t = "report" /\ Resolve(fs, out[i].path) = n
Noted(kind, n) ==
    \E i \in DOMAIN err : err[i].t = kind /\ Resolve(fs, err[i].path) = n

\* What is left of a walk: the entries not yet visited, then the frames,
\* the entries still to do in them and the return to the caller.
RECURSIVE Pending(_)
Pending(stk) ==
    IF stk = <<>> THEN 0 ELSE 1 + Len(Head(stk).todo) + Pending(Tail(stk))
Unvisited == Cardinality({n \in Nodes : ~Visited(n)})
Measure ==
    Unvisited * (NNodes + 2) * (NNodes + 2) + Pending(stack)
        + (IF pc = "walking" THEN 1 ELSE 0)

ProcessedOnce ==
    \A n \in Nodes :
        /\ Len(reads[n]) <= 1
        /\ scored[n] <= Len(reads[n])
        /\ WasRead(n) => Visited(n)
        /\ (IsFile(n) /\ Visited(n) /\ n # fs.bad) => Len(reads[n]) = 1

\* C1: whatever the tree, its link and the roots given, every step of a
\* walk brings it nearer its end, and a regular file is read and scored at
\* most once under all its path names: exactly once when it was visited and
\* could be read.
C1_WalkTerminatesEachFileOnce ==
    /\ []ProcessedOnce
    /\ [][pc = "walking" => Measure' < Measure]_vars

\* The link leads to a file; the top directory was walked, and the link was
\* given as a root of its own in a second call.
C1_Witness ==
    /\ pc = "idle" /\ calls = 2 /\ input = <<1, 0>>
    /\ Visited(1)
    /\ fs.link.target # 0 /\ IsFile(fs.link.target)
    /\ Len(reads[fs.link.target]) = 1
    /\ scored[fs.link.target] = 1

ZipFails(n) ==
    /\ WasRead(n)
    /\ WithinSize(Found(n))
    /\ Head(Found(n).bytes) = PK
    /\ ~Found(n).zip.ok

WalkComplete ==
    /\ RealPath(fs, input) \in already_visited
    /\ \A d \in Nodes :
          (fs.kind[d] = "dir" /\ Visited(d) /\ d # fs.bad) =>
              \A k \in 1..Len(ListDir(fs, d)) :
                  RealPath(fs, Append(CanonPath(fs, d), ListDir(fs, d)[k]))
                      \in already_visited

\* C4: the entry the file system fails on gets a diagnostic that names its
\* path, is neither read nor listed, and stops nothing else: when a call
\* returns, the root and all entries of all other directories reached have
\* been visited, and every plain file read is reported.
C4_FailureSkipsOnlyThatPath ==
    /\ \A i \in DOMAIN err :
          err[i].t = "Failed to read" => Resolve(fs, err[i].path) = fs.bad
    /\ \A n \in Nodes :
          n = fs.bad =>
              /\ ~WasRead(n)
              /\ Visited(n) => Noted("Failed to read", n)
              /\ \A k \in DOMAIN stack : Resolve(fs, stack[k].path) # n
    /\ (pc = "idle" /\ calls > 0) => WalkComplete
    /\ \A n \in Nodes :
          (WasRead(n) /\ WithinSize(Found(n)) /\ Head(Found(n).bytes) # PK)
              => Reported(n)

\* The top directory was walked; entry 2 failed and entry 3, a file listed
\* after it, was read and reported.
C4_Witness ==
    /\ pc = "idle" /\ status = "finished" /\ calls = 1 /\ input = <<1>>
    /\ fs.bad = 2 /\ fs.parent[3] = 1 /\ IsFile(3)
    /\ Noted("Failed to read", 2)
    /\ WasRead(3) /\ Reported(3)

----------------------------------------------------------------------------
(* _wrap, one loop iteration per step *)

WrapAlphabet == {"a", "b", NL}

InitWrap ==
    /\ \E cols \in 1..MaxWrapCols :
          cfg = [DefaultCfg EXCEPT !.output_width = Indent + cols]
    /\ input \in SeqsUpTo(WrapAlphabet, MaxTextLen)
    /\ pc = "wrap"
    /\ out = <<>>
    /\ ret = "none"
    /\ offs = 0
    /\ lines = <<>>
    /\ WalkIdle

\* while offs <= len(block): one iteration
WrapStep ==
    /\ pc = "wrap"
    /\ offs <= Len(input)
    /\ LET it == WrapIter(input, cfg.output_width, offs)
       IN  /\ lines' = Append(lines, it.line)
           /\ offs' = it.offs
    /\ UNCHANGED <<cfg, pc, input, out, ret>>
    /\ UNCHANGED walkVars

\* return '\n'.join(lines)
WrapReturn ==
    /\ pc = "wrap"
    /\ offs > Len(input)
    /\ pc' = "done"
    /\ UNCHANGED <<cfg, input, out, ret, offs, lines>>
    /\ UNCHANGED walkVars

NextWrap == WrapStep \/ WrapReturn

\* The loop is sequential code: a step that can be taken is taken.
SpecWrap == InitWrap /\ [][NextWrap]_vars /\ WF_vars(NextWrap)

----------------------------------------------------------------------------
(* Claims about _wrap *)

LineBody(l) == SubSeq(l, Indent + 1, Len(l))

RECURSIVE DropNL(_)
DropNL(s) ==
    IF s = <<>> THEN <<>>
    ELSE (IF Head(s) = NL THEN <<>> ELSE <<Head(s)>>) \o DropNL(Tail(s))

\* Every line so far is the indent plus at most output_width - 4 characters,
\* none a line break, and the lines so far spell the text consumed so far
\* with its line breaks removed.
WrapLinesOk ==
    pc \in {"wrap", "done"} =>
        /\ \A k \in 1..Len(lines) :
              /\ Len(lines[k]) >= Indent
              /\ SubSeq(lines[k], 1, Indent) = IndentStr
              /\ Len(LineBody(lines[k])) <= cfg.output_width - Indent
              /\ \A j \in 1..Len(LineBody(lines[k])) : LineBody(lines[k])[j] # NL
        /\ Concat([k \in 1..Len(lines) |-> LineBody(lines[k])])
              = DropNL(Slice(input, 0, offs))
        /\ (pc = "done" => lines = Wrap(input, cfg.output_width))

\* C10: for every block text and output_width >= 5, _wrap terminates, every
\* line is the 4-space indent plus at most output_width - 4 characters with
\* no line break among them, and the lines in order are the text with only
\* its line breaks removed.
C10_WrapTerminatesAndKeepsText == []WrapLinesOk /\ <>(pc = "done")

\* A text with a line break inside a window and a run longer than the
\* window has been wrapped into several lines.
C10_Witness ==
    /\ pc = "done"
    /\ Len(lines) >= 3
    /\ \E k \in 1..Len(input) : input[k] = NL
    /\ \E k \in 1..Len(lines) : Len(LineBody(lines[k])) = cfg.output_width - Indent
    /\ Len(DropNL(input)) < Len(input)

----------------------------------------------------------------------------
(* print_previews, called once on the matches of one blob *)

Letters == <<"a", "b", "c", "d", "e", "f", "g", "h">>

\* The spans (start, end) a pattern can match in a blob of length n.
Spans(n) == {sp \in (0..n) \X (0..n) : sp[1] <= sp[2]}

\* Two different matches of one finditer run never share a byte, and no
\* match is found twice.
Disjoint(a, b) == a # b /\ (a[2] <= b[1] \/ b[2] <= a[1])

\* The match lists a caller can pass for a blob of length n, in any order.
SpanLists(n) ==
    {sl \in SeqsUpTo(Spans(n), MaxSpans) :
        \A i, j \in 1..Len(sl) : i # j => Disjoint(sl[i], sl[j])}

ToMatches(sl) == [j \in 1..Len(sl) |-> Match(sl[j][1], sl[j][2], 1)]

PreviewBlob == SubSeq(Letters, 1, MaxBlobLen)
PreviewInputs == {ToMatches(sl) : sl \in SpanLists(MaxBlobLen)}

InitPreview ==
    /\ MaxBlobLen <= Len(Letters)
    /\ \E lead \in 0..MaxCtx, lag \in 0..MaxCtx, col \in BOOLEAN :
          cfg = [DefaultCfg EXCEPT !.preview = TRUE, !.preview_lead = lead,
                                   !.preview_lag = lag, !.colorize = col]
    /\ \E ms \in PreviewInputs :
          input = [matches |-> ms, strs |-> <<PreviewBlob>>, psa |-> FALSE]
    /\ pc = "call"
    /\ out = <<>>
    /\ ret = "none"
    /\ WalkIdle
    /\ WrapIdle

\* self.print_previews(m, printed_something_already)
PrintPreviewsCall ==
    /\ pc = "call"
    /\ LET r == PrintPreviews(input.matches, input.strs, input.psa, cfg)
       IN  /\ out' = out \o r.out
           /\ ret' = IF r.raised THEN "TypeError"
                     ELSE IF r.ret THEN "True" ELSE "False"
           /\ pc' = IF r.raised THEN "raised" ELSE "done"
    /\ UNCHANGED <<cfg, input>>
    /\ UNCHANGED walkVars
    /\ UNCHANGED wrapVars

NextPreview == PrintPreviewsCall

SpecPreview == InitPreview /\ [][NextPreview]_vars

----------------------------------------------------------------------------
(* _searchcontents, called once on one unit *)

\* A blob in which the pattern a matches k times in a row, plain or closed
\* by '>' (the tail of a tag, which the tag pattern strips with what
\* precedes it).
UnitBlob(k, tail) ==
    [bytes |-> Run("a", k) \o (IF tail THEN <<">">> ELSE <<>>),
     spans |-> [j \in 1..k |-> <<j - 1, j>>]]

UnitBlobs == {UnitBlob(k, tail) : k \in 0..MaxSpans, tail \in BOOLEAN}
Units == SeqsUpTo(UnitBlobs, MaxBlobs)

InitContents ==
    /\ \E mn \in 1..MaxCfg, mx \in 1..MaxCfg, pv \in BOOLEAN, col \in BOOLEAN :
          cfg = [DefaultCfg EXCEPT !.min_matches = mn, !.max_previews = mx,
                                   !.preview = pv, !.colorize = col]
    /\ \E u \in Units : input = [path |-> "unit", contents |-> u]
    /\ pc = "call"
    /\ out = <<>>
    /\ ret = "none"
    /\ WalkIdle
    /\ WrapIdle

\* self._searchcontents(path, contents)
SearchContentsCall ==
    /\ pc = "call"
    /\ LET r == SearchContents(input.path, input.contents, cfg)
       IN  /\ out' = out \o r.out
           /\ ret' = IF r.raised THEN "TypeError" ELSE "None"
           /\ pc' = IF r.raised THEN "raised" ELSE "done"
    /\ UNCHANGED <<cfg, input>>
    /\ UNCHANGED walkVars
    /\ UNCHANGED wrapVars

NextContents == SearchContentsCall

SpecContents == InitContents /\ [][NextContents]_vars

----------------------------------------------------------------------------
(* Claims about _searchcontents *)

\* The call under study has ended, by returning or by raising.
Returned == pc \in {"done", "raised"}

RECURSIVE TotalCount(_)
TotalCount(contents) ==
    IF contents = <<>> THEN 0
    ELSE Len(Head(contents).spans) + TotalCount(Tail(contents))

ReportLines == {k \in 1..Len(out) : out[k].t = "report"}

\* C2: _searchcontents prints exactly one report line "<path>: <count>" if
\* and only if the sum of the per-blob match counts is >= min_matches, the
\* count printed is that sum, and a unit below min_matches prints nothing.
C2_ReportIffEnoughMatches ==
    Returned =>
        IF TotalCount(input.contents) >= cfg.min_matches
        THEN /\ ReportLines = {1}
             /\ out[1] = [t |-> "report", path |-> input.path,
                          n |-> TotalCount(input.contents)]
        ELSE out = <<>>

\* An archive of two members, each with matches, was reported with the sum.
C2_Witness ==
    /\ Returned
    /\ Len(input.contents) = 2
    /\ Len(input.contents[1].spans) = 2
    /\ Len(input.contents[2].spans) = 1
    /\ cfg.min_matches = 3
    /\ ReportLines = {1}
    /\ out[1].n = 3

\* What was handed to print_previews, blob by blob.
Passed == SearchContents(input.path, input.contents, cfg).passed

RECURSIVE BudgetBefore(_, _, _)
BudgetBefore(contents, k, budget) ==
    IF k <= 1 THEN budget
    ELSE LET b == BudgetBefore(contents, k - 1, budget)
         IN  b - Min(b, Len(contents[k - 1].spans))

\* C7: with preview on, the spans passed to rendering over all blobs of a
\* reported unit number min(max_previews, total), each blob's list is its
\* leftmost spans up to the budget left, and no blob is rendered once the
\* budget is zero.
C7_BudgetSharedAcrossBlobs ==
    (Returned /\ cfg.preview /\ TotalCount(input.contents) >= cfg.min_matches) =>
        /\ SumLens(Passed) = Min(cfg.max_previews, TotalCount(input.contents))
        /\ \A k \in 1..Len(input.contents) :
              LET left == BudgetBefore(input.contents, k, cfg.max_previews)
                  want == SubSeq(MatchesOf(input.contents, k), 1,
                                 Min(left, Len(input.contents[k].spans)))
              IN  IF left = 0 THEN k > Len(Passed)
                  ELSE k <= Len(Passed) /\ Passed[k] = want

\* C6: in the preview output of a unit a divider stands only between two
\* printed blocks: never first, never last, never next to another divider.
C6_DividerOnlyBetweenBlocks ==
    pc = "done" =>
        \A k \in 1..Len(out) :
            out[k].t = "div" =>
                /\ k > 1 /\ out[k - 1].t = "block"
                /\ k < Len(out) /\ out[k + 1].t = "block"

----------------------------------------------------------------------------
(* Claims about print_previews *)

\* The order finditer yields: left to right, no two matches sharing a byte.
InFindOrder(ms) == \A j \in 1..(Len(ms) - 1) : ms[j].end <= ms[j + 1].start

DistinctStarts(ms) ==
    \A i, j \in 1..Len(ms) : i # j => ms[i].start # ms[j].start

\* The result of the call under study, recomputed from its arguments.
Called == PrintPreviews(input.matches, input.strs, input.psa, cfg)

\* The parts list the merge loop leaves (lines 120-131).
MergedParts(ms) == IF ms = <<>> THEN <<>> ELSE MergeSorted(SortByStart(ms), cfg).parts

\* The Display Blocks of a parts list: a block ends where a context part
\* follows a context part (line 143).
RECURSIVE SplitBlocks(_, _, _)
SplitBlocks(parts, cur, acc) ==
    IF parts = <<>> THEN (IF cur = <<>> THEN acc ELSE Append(acc, cur))
    ELSE IF cur # <<>> /\ Head(parts).isContext /\ cur[Len(cur)].isContext
         THEN SplitBlocks(Tail(parts), <<Head(parts)>>, Append(acc, cur))
         ELSE SplitBlocks(Tail(parts), Append(cur, Head(parts)), acc)

DisplayBlocks(ms) == SplitBlocks(MergedParts(ms), <<>>, <<>>)

NMatchParts(parts) == Cardinality({k \in 1..Len(parts) : ~parts[k].isContext})

RECURSIVE MatchesBefore(_, _)
MatchesBefore(blocks, b) ==
    IF b <= 1 THEN 0
    ELSE MatchesBefore(blocks, b - 1) + NMatchParts(blocks[b - 1])

\* The block holding the j-th match part (0 when there is none).
BlockOf(blocks, j) ==
    LET bs == {b \in 1..Len(blocks) :
                  /\ MatchesBefore(blocks, b) < j
                  /\ j <= MatchesBefore(blocks, b) + NMatchParts(blocks[b])}
    IN  IF bs = {} THEN 0 ELSE CHOOSE b \in bs : TRUE

\* The trailing lag window of m1 and the leading lead window of m2 share a byte.
WindowsOverlap(m1, m2, c) ==
    Max(m1.end, Max(0, m2.start - c.preview_lead))
        < Min(m1.end + c.preview_lag, m2.start)

\* Matches j and j+1 sit in one block, separated by the single context
\* part [end_j, start_j+1).
MergedPair(blocks, ms, j) ==
    LET b  == BlockOf(blocks, j)
        ps == blocks[b]
        k  == 2 * (j - MatchesBefore(blocks, b))
    IN  /\ b > 0
        /\ BlockOf(blocks, j + 1) = b
        /\ k + 2 <= Len(ps)
        /\ ps[k] = Part(ms[j].start, ms[j].end, ms[j].string, FALSE)
        /\ ps[k + 1] = Part(ms[j].end, ms[j + 1].start, ms[j].string, TRUE)
        /\ ps[k + 2] = Part(ms[j + 1].start, ms[j + 1].end, ms[j].string, FALSE)

\* C5 as stated: two consecutive matches whose lag and lead windows overlap
\* end up in one merged block.
C5_OverlappingWindowsMerge ==
    (Returned /\ InFindOrder(input.matches)) =>
        \A j \in 1..(Len(input.matches) - 1) :
            WindowsOverlap(input.matches[j], input.matches[j + 1], cfg)
                => BlockOf(DisplayBlocks(input.matches), j)
                     = BlockOf(DisplayBlocks(input.matches), j + 1)

\* C5 amended: two consecutive matches are merged into one block, with the
\* one shared context run [end1, start2) between them, exactly when the
\* second starts before the end of the first's lag window
\* (start2 < end1 + lag); otherwise they are two blocks.
C5_MergeIffStartInsideLag ==
    (Returned /\ InFindOrder(input.matches)) =>
        \A j \in 1..(Len(input.matches) - 1) :
            IF input.matches[j + 1].start < input.matches[j].end + cfg.preview_lag
            THEN MergedPair(DisplayBlocks(input.matches), input.matches, j)
            ELSE BlockOf(DisplayBlocks(input.matches), j + 1)
                   = BlockOf(DisplayBlocks(input.matches), j) + 1

\* Two matches with bytes between them were merged into the only block,
\* and the block was printed.
C5_Witness ==
    /\ pc = "done"
    /\ Len(input.matches) = 2
    /\ InFindOrder(input.matches)
    /\ input.matches[1].end < input.matches[2].start
    /\ input.matches[2].start < input.matches[1].end + cfg.preview_lag
    /\ Len(DisplayBlocks(input.matches)) = 1
    /\ Len(out) = 1 /\ out[1].t = "block"

PermutationsOf(ms) ==
    {[k \in 1..Len(ms) |-> ms[f[k]]] : f \in Permutations(1..Len(ms))}

\* Every order of the matches gives the same blocks (parts, tagging, bytes)
\* and the same output.
SameForEveryOrder ==
    \A q \in PermutationsOf(input.matches) :
        LET r == PrintPreviews(q, input.strs, input.psa, cfg)
        IN  /\ DisplayBlocks(q) = DisplayBlocks(input.matches)
            /\ r.out = out
            /\ r.blocks = Called.blocks
            /\ r.raised = (pc = "raised")

\* C8 as stated: any permutation of the same matches gives the same blocks.
C8_AnyOrderSameBlocks == Returned => SameForEveryOrder

\* C8 amended: any permutation of matches with pairwise distinct start
\* offsets gives the same blocks (matches that start at the same offset keep
\* the order they were given in).
C8_DistinctStartsAnyOrderSameBlocks ==
    (Returned /\ DistinctStarts(input.matches)) => SameForEveryOrder

\* Two matches were given right to left and something was printed.
C8_Witness ==
    /\ pc = "done"
    /\ Len(input.matches) = 2
    /\ input.matches[1].start > input.matches[2].start
    /\ \E k \in 1..Len(out) : out[k].t = "block"

RECURSIVE DropEsc(_)
DropEsc(s) ==
    IF s = <<>> THEN <<>>
    ELSE (IF Head(s) \in {ESC_CTX, ESC_MATCH} THEN <<>> ELSE <<Head(s)>>)
         \o DropEsc(Tail(s))

\* One block is a contiguous run of one blob.
BlockContiguous(blk, strs, c) ==
    LET ps == blk.parts
        n  == Len(ps)
    IN  /\ n >= 3
        /\ ps[1].isContext /\ ps[n].isContext
        /\ \A k \in 1..(n - 1) : ps[k].end = ps[k + 1].start
        /\ \A k \in 1..n : ps[k].string = ps[1].string
        /\ DropEsc(blk.bytes)
              = Slice(strs[ps[1].string],
                      Max(0, ps[2].start - c.preview_lead),
                      Min(Len(strs[ps[1].string]), ps[n - 1].end + c.preview_lag))

\* After every iteration of the merge loop, i is the index of the last part
\* and that part is a trailing context.
IndexOnLastPart(ms, c) ==
    \A k \in 1..Len(ms) :
        LET st == MergeSorted(SubSeq(SortByStart(ms), 1, k), c)
        IN  st.i = Len(st.parts) /\ st.parts[st.i].isContext

\* C9: for matches in finditer order, every block print_previews builds is
\* one contiguous run blob[max(0, start_first - lead) : min(len, end_last + lag)]
\* of a single blob, each part ending where the next begins, and the merge
\* loop's i always designates the last, trailing-context part.
C9_BlocksAreContiguousRuns ==
    (Returned /\ input.matches # <<>> /\ InFindOrder(input.matches)) =>
        /\ Len(Called.blocks) >= 1
        /\ \A b \in 1..Len(Called.blocks) :
              /\ BlockContiguous(Called.blocks[b], input.strs, cfg)
              /\ Called.blocks[b].parts = DisplayBlocks(input.matches)[b]
        /\ IndexOnLastPart(input.matches, cfg)

\* A merged block whose trailing context was shrunk and whose last context
\* is clipped at the end of the blob.
C9_Witness ==
    /\ pc = "done"
    /\ Len(input.matches) = 2
    /\ InFindOrder(input.matches)
    /\ input.matches[1].end < input.matches[2].start
    /\ Len(Called.blocks) = 1
    /\ input.matches[2].end + cfg.preview_lag > Len(input.strs[1])
    /\ input.matches[1].start > 0
    /\ Len(out) = 1 /\ out[1].t = "block"

====
